---- MODULE Spec2Model ----
(***************************************************************************)
(* A model of the bucketed hash map of src/src/hashmap/hashmap.c.          *)
(*                                                                         *)
(* Memory is an arena of bucket records addressed by integers: the map     *)
(* record is one block, a bucket array is one block of consecutive bucket  *)
(* addresses, and every overflow bucket is a block of its own.  A 64-bit   *)
(* hash is kept as the two parts the code reads: its top byte (hash >> 56) *)
(* and its low bits (the operand of hash & (bucket_count - 1)).            *)
(***************************************************************************)
EXTENDS Integers, Sequences, FiniteSets, TLC

\* ---------------------------------------------------------------- constants

\* An initial bucket count that is no power of two.
INITIAL_BUCKET_COUNT_Six == 2 * 3

INITIAL_BUCKET_COUNT == 8
BUCKET_SIZE == 8
LOAD_FACTOR_NUMERATOR == 13
LOAD_FACTOR_DENOMINATOR == 2
EMPTY == 0
NULL == 0

\* ------------------------------------------------------------------- bounds

\* Keys of the free-order specification are 0..MaxKey.
MaxKey == 2
\* The sequential specification puts the keys 0..MaxPuts-1 in order under
\* the spreading hash, and the keys 0..MaxCollide-1 under the colliding one.
MaxPuts == 418
MaxCollide == 40

Keys == 0..MaxKey
\* Two values tell an overwrite from the value it replaces; two seeds stand
\* for the readings of time(NULL).
Values == {1, 2}
Seeds == {1, 2}

\* A pointer argument of the caller: the absent pointer, or the datum it
\* points to.
NULLARG == -1

\* What the caller's output buffer holds before a get.
OutFill == {255}

\* The caller-supplied hash functions explored and the equality function.
HashFns == {"ident", "top", "mix"}
EqualsFns == {"memeq"}
NOFN == "null"
\* The sequential specification runs the hash that spreads the keys over all
\* chains and the one that sends every key to chain 0.
SeqHashFns == {"ident", "top"}

Slots == 0..(BUCKET_SIZE - 1)

\* ----------------------------------------------------------------- state

VARIABLES
    map,        \* the caller's handle: NULL or the address of the map record
    hmap,       \* the fields of struct hashmap
    mem,        \* bucket address -> bucket record
    live,       \* base addresses of the blocks allocated and not freed
    brk,        \* the next address the allocator hands out
    heapErr,    \* a block was freed that was not live (double or wild free)
    destroyed,  \* hashmap_destroy consumed the handle
    op,         \* the last call made; for a put, whether its key had been
                \* put before (known) and the value it then had (prev)
    ret,        \* its return value
    out,        \* the caller's output buffer after the last call
    last        \* key -> value of the most recent successful put

heap == <<mem, live, brk, heapErr>>
vars == <<map, hmap, mem, live, brk, heapErr, destroyed, op, ret, out, last>>

\* ------------------------------------------------------- caller's functions

\* hash_fn: key -> uint64, as [hi: bits 56..63, lo: the low bits].
HashOf(fn, key) ==
    CASE fn = "ident" -> [hi |-> 0, lo |-> key]
      [] fn = "top"   -> [hi |-> key % 256, lo |-> 0]
      [] fn = "mix"   -> [hi |-> (key * 85) % 256, lo |-> key \div 2]

\* equals_fn: memcmp over key_size bytes.
EqualsOf(fn, a, b) == a = b

\* ------------------------------------------------------------ bucket layout

RECURSIVE BitAnd(_, _)
BitAnd(a, b) ==
    IF a = 0 \/ b = 0 THEN 0
    ELSE (a % 2) * (b % 2) + 2 * BitAnd(a \div 2, b \div 2)

get_bucket(buckets, index) == buckets + index

\* The top byte taken as it is, zero included.
top_hash_Raw(hash) == hash.hi % 256

top_hash(hash) ==
    LET top == hash.hi % 256
    IN  IF top < 1 THEN 1 ELSE top

\* An index taken as a remainder by the mask.
bucket_index_Mod(hash, bucket_count) == hash.lo % (bucket_count - 1)

bucket_index(hash, bucket_count) == BitAnd(hash.lo, bucket_count - 1)

\* A bucket taken from memory that was never cleared.
DirtyBucket ==
    [tophash  |-> [i \in Slots |-> 1],
     keys     |-> [i \in Slots |-> 0],
     values   |-> [i \in Slots |-> 0],
     overflow |-> NULL]

\* calloc: every byte of a fresh bucket is zero.
ZeroBucket ==
    [tophash  |-> [i \in Slots |-> EMPTY],
     keys     |-> [i \in Slots |-> 0],
     values   |-> [i \in Slots |-> 0],
     overflow |-> NULL]

get_overflow(memv, bucket) == memv[bucket].overflow

set_overflow(memv, bucket, overflow) ==
    [memv EXCEPT ![bucket].overflow = overflow]

\* alloc_bucket: one zeroed bucket at address addr.
alloc_bucket(memv, addr) ==
    [a \in (DOMAIN memv) \cup {addr} |->
        IF a = addr THEN ZeroBucket ELSE memv[a]]

\* alloc_buckets: count zeroed buckets at base, base+1, ...
alloc_buckets(memv, base, count) ==
    [a \in (DOMAIN memv) \cup (base..(base + count - 1)) |->
        IF a >= base /\ a < base + count THEN ZeroBucket ELSE memv[a]]

\* ---------------------------------------------------------------- allocator

\* free(addr): releases a live block; freeing anything else is an error.
Free(hp, addr) ==
    IF addr \in hp.live
    THEN [hp EXCEPT !.live = hp.live \ {addr}]
    ELSE [hp EXCEPT !.err = TRUE]

\* --------------------------------------------------------------- lifecycle

\* struct hashmap before hashmap_create has filled it in.
NoMap ==
    [key_size |-> 0, value_size |-> 0, hash |-> NOFN, equals |-> NOFN,
     buckets |-> NULL, bucket_count |-> 0, count |-> 0, hash_seed |-> 0,
     old_buckets |-> NULL, old_bucket_count |-> 0, evacuated |-> 0]

\* The map record hashmap_create returns, its bucket array at address base.
NewMap(key_size, value_size, hash, equals, seed, base) ==
    [key_size |-> key_size, value_size |-> value_size,
     hash |-> hash, equals |-> equals,
     buckets |-> base, bucket_count |-> INITIAL_BUCKET_COUNT,
     count |-> 0, hash_seed |-> seed,
     old_buckets |-> NULL, old_bucket_count |-> 0, evacuated |-> 0]

\* A check whose test of the hash function is negated once too often.
create_rejects_Inverted(key_size, value_size, hash, equals) ==
    key_size = 0 \/ value_size = 0 \/ ~(hash = NOFN) \/ equals = NOFN

\* The argument check of hashmap_create.
create_rejects(key_size, value_size, hash, equals) ==
    key_size = 0 \/ value_size = 0 \/ hash = NOFN \/ equals = NOFN

hashmap_create(key_size, value_size, hash, equals, seed, mallocOK, callocOK) ==
    /\ map = NULL
    /\ ~destroyed
    /\ op' = [name |-> "create", key_size |-> key_size,
              value_size |-> value_size, hash |-> hash, equals |-> equals,
              allocOK |-> mallocOK /\ callocOK]
    /\ out' = <<>>
    /\ UNCHANGED <<heapErr, destroyed, last>>
    /\ IF create_rejects(key_size, value_size, hash, equals)
          \/ ~mallocOK \/ ~callocOK
       THEN \* malloc failed, or alloc_buckets failed and the record was freed
            /\ ret' = FALSE
            /\ UNCHANGED <<map, hmap, mem, live, brk>>
       ELSE /\ map' = brk
            /\ hmap' = NewMap(key_size, value_size, hash, equals, seed, brk + 1)
            /\ mem' = alloc_buckets(mem, brk + 1, INITIAL_BUCKET_COUNT)
            /\ live' = live \cup {brk, brk + 1}
            /\ brk' = brk + 1 + INITIAL_BUCKET_COUNT
            /\ ret' = TRUE

\* A walk that frees the first overflow bucket and stops.
free_chain_from_First(memv, hp, overflow) ==
    IF overflow = NULL THEN hp ELSE Free(hp, overflow)

\* free_overflow_chain: frees every overflow bucket behind bucket, not bucket.
RECURSIVE free_chain_from(_, _, _)
free_chain_from(memv, hp, overflow) ==
    IF overflow = NULL THEN hp
    ELSE LET next == get_overflow(memv, overflow)
         IN  free_chain_from(memv, Free(hp, overflow), next)

free_overflow_chain(memv, hp, bucket) ==
    free_chain_from(memv, hp, get_overflow(memv, bucket))

\* The loop of hashmap_destroy over the buckets i..count-1 of one array.
RECURSIVE free_array_chains(_, _, _, _, _)
free_array_chains(memv, hp, buckets, count, i) ==
    IF i >= count THEN hp
    ELSE free_array_chains(memv,
             free_overflow_chain(memv, hp, get_bucket(buckets, i)),
             buckets, count, i + 1)

destroy_array(memv, hp, buckets, count) ==
    IF buckets = NULL THEN hp
    ELSE Free(free_array_chains(memv, hp, buckets, count, 0), buckets)

destroy_result(m, memv, hp, handle) ==
    LET h1 == destroy_array(memv, hp, m.buckets, m.bucket_count)
        h2 == destroy_array(memv, h1, m.old_buckets, m.old_bucket_count)
    IN  Free(h2, handle)

hashmap_destroy ==
    /\ ~destroyed
    /\ op' = [name |-> "destroy", handle |-> map]
    /\ ret' = TRUE
    /\ out' = <<>>
    /\ UNCHANGED <<map, hmap, mem, brk, last>>
    /\ IF map = NULL
       THEN UNCHANGED <<live, heapErr, destroyed>>
       ELSE LET hp == destroy_result(hmap, mem,
                          [live |-> live, err |-> heapErr], map)
            IN  /\ live' = hp.live
                /\ heapErr' = hp.err
                /\ destroyed' = TRUE

\* --------------------------------------------------------------------- put

\* The locals of hashmap_put's scan before the loop starts.
ScanStart(bucket) ==
    [found |-> FALSE, found_bucket |-> NULL, found_slot |-> -1,
     insert_bucket |-> bucket, insert_slot |-> -1, last_bucket |-> bucket]

\* A loop that remembers every empty slot it passes, so the last one wins.
RECURSIVE scan_slots_LastFree(_, _, _, _, _, _, _)
scan_slots_LastFree(memv, eq, cur, i, top, key, st) ==
    IF i >= BUCKET_SIZE THEN st
    ELSE IF memv[cur].tophash[i] = EMPTY
    THEN scan_slots_LastFree(memv, eq, cur, i + 1, top, key,
             [st EXCEPT !.insert_bucket = cur, !.insert_slot = i])
    ELSE IF memv[cur].tophash[i] = top /\ EqualsOf(eq, memv[cur].keys[i], key)
    THEN [st EXCEPT !.found = TRUE, !.found_bucket = cur, !.found_slot = i]
    ELSE scan_slots_LastFree(memv, eq, cur, i + 1, top, key, st)

\* The for loop of hashmap_put over the slots i..BUCKET_SIZE-1 of one bucket.
RECURSIVE scan_slots(_, _, _, _, _, _, _)
scan_slots(memv, eq, cur, i, top, key, st) ==
    IF i >= BUCKET_SIZE THEN st
    ELSE IF memv[cur].tophash[i] = EMPTY
    THEN scan_slots(memv, eq, cur, i + 1, top, key,
             IF st.insert_slot = -1
             THEN [st EXCEPT !.insert_bucket = cur, !.insert_slot = i]
             ELSE st)
    ELSE IF memv[cur].tophash[i] = top /\ EqualsOf(eq, memv[cur].keys[i], key)
    THEN [st EXCEPT !.found = TRUE, !.found_bucket = cur, !.found_slot = i]
    ELSE scan_slots(memv, eq, cur, i + 1, top, key, st)

\* A walk that compares keys in the first bucket only: behind it, it looks
\* for free slots and the end of the chain, and matches no tag.
RECURSIVE scan_chain_HeadOnly(_, _, _, _, _, _)
scan_chain_HeadOnly(memv, eq, current_bucket, top, key, st) ==
    IF current_bucket = NULL THEN st
    ELSE LET s == scan_slots(memv, eq, current_bucket, 0, top, key, st)
         IN  IF s.found THEN s
             ELSE scan_chain_HeadOnly(memv, eq,
                      get_overflow(memv, current_bucket), -1, key,
                      [s EXCEPT !.last_bucket = current_bucket])

\* The while loop of hashmap_put over the chain starting at current_bucket.
RECURSIVE scan_chain(_, _, _, _, _, _)
scan_chain(memv, eq, current_bucket, top, key, st) ==
    IF current_bucket = NULL THEN st
    ELSE LET s == scan_slots(memv, eq, current_bucket, 0, top, key, st)
         IN  IF s.found THEN s
             ELSE scan_chain(memv, eq, get_overflow(memv, current_bucket),
                      top, key, [s EXCEPT !.last_bucket = current_bucket])

\* An update that reports success without copying the value.
update_value_Skipped(memv, bucket, slot, value) == memv

\* Found existing key: memcpy of the value over the existing one.
update_value(memv, bucket, slot, value) ==
    [memv EXCEPT ![bucket].values[slot] = value]

\* A fresh overflow bucket that is never linked into the chain.
link_overflow_Unlinked(memv, last_bucket, addr) == alloc_bucket(memv, addr)

\* The chain is full: a fresh overflow bucket at addr, linked behind last.
link_overflow(memv, last_bucket, addr) ==
    set_overflow(alloc_bucket(memv, addr), last_bucket, addr)

\* A store that lands one slot behind the one chosen.
write_slot_OffByOne(memv, bucket, slot, top, key, value) ==
    [memv EXCEPT ![bucket].tophash[(slot + 1) % BUCKET_SIZE] = top,
                 ![bucket].keys[(slot + 1) % BUCKET_SIZE] = key,
                 ![bucket].values[(slot + 1) % BUCKET_SIZE] = value]

\* A store that leaves the value bytes of the slot as they were.
write_slot_NoValue(memv, bucket, slot, top, key, value) ==
    [memv EXCEPT ![bucket].tophash[slot] = top,
                 ![bucket].keys[slot] = key]

\* The tag, key and value written into the insertion slot.
write_slot(memv, bucket, slot, top, key, value) ==
    [memv EXCEPT ![bucket].tophash[slot] = top,
                 ![bucket].keys[slot] = key,
                 ![bucket].values[slot] = value]

\* An insertion that forgets to count the entry.
count_inc_Skipped(m) == m

\* map->count++
count_inc(m) == [m EXCEPT !.count = m.count + 1]

\* The load factor check that ends hashmap_put.
needs_growth(m) ==
    m.count * LOAD_FACTOR_DENOMINATOR >
        m.bucket_count * BUCKET_SIZE * LOAD_FACTOR_NUMERATOR

\* The body of that check: empty in the source.
start_growth(m) == m

\* A hash that mixes the seed of the map into the caller's hash.
key_hash_Seeded(m, key) ==
    LET h == HashOf(m.hash, key)
    IN  [hi |-> h.hi, lo |-> h.lo + m.hash_seed]

\* The hash hashmap_put computes: the caller's function applied to the key.
key_hash(m, key) == HashOf(m.hash, key)

\* A failure noticed only after the entry was counted.
put_alloc_failed_Counted(st) ==
    [ret |-> FALSE, fresh |-> FALSE, hmap |-> count_inc(st.hmap),
     mem |-> st.mem, live |-> st.live, brk |-> st.brk]

\* What an allocation failure leaves behind: hashmap_put returns at once.
put_alloc_failed(st) ==
    [ret |-> FALSE, fresh |-> FALSE, hmap |-> st.hmap, mem |-> st.mem,
     live |-> st.live, brk |-> st.brk]

\* hashmap_put on a present map with present key and value: the return value
\* and the memory it leaves; fresh says that a new entry was stored.
put_result(m, memv, lv, bk, key, value, allocOK) ==
    LET hash   == key_hash(m, key)
        top    == top_hash(hash)
        idx    == bucket_index(hash, m.bucket_count)
        bucket == get_bucket(m.buckets, idx)
        s      == scan_chain(memv, m.equals, bucket, top, key,
                             ScanStart(bucket))
        st     == [hmap |-> m, mem |-> memv, live |-> lv, brk |-> bk]
    IN  IF s.found
        THEN [ret |-> TRUE, fresh |-> FALSE, hmap |-> m,
              mem |-> update_value(memv, s.found_bucket, s.found_slot, value),
              live |-> lv, brk |-> bk]
        ELSE IF s.insert_slot = -1 /\ ~allocOK
        THEN put_alloc_failed(st)
        ELSE LET full == s.insert_slot = -1
                 mem1 == IF full THEN link_overflow(memv, s.last_bucket, bk)
                         ELSE memv
                 ib   == IF full THEN bk ELSE s.insert_bucket
                 is   == IF full THEN 0 ELSE s.insert_slot
                 m1   == count_inc(m)
             IN  [ret |-> TRUE, fresh |-> TRUE,
                  hmap |-> IF needs_growth(m1) THEN start_growth(m1) ELSE m1,
                  mem |-> write_slot(mem1, ib, is, top, key, value),
                  live |-> IF full THEN lv \cup {bk} ELSE lv,
                  brk |-> IF full THEN bk + 1 ELSE bk]

hashmap_put(key, value, allocOK) ==
    /\ ~destroyed
    /\ op' = [name |-> "put", key |-> key, value |-> value,
              known |-> key \in DOMAIN last,
              prev |-> IF key \in DOMAIN last THEN last[key] ELSE 0]
    /\ out' = <<>>
    /\ UNCHANGED <<map, heapErr, destroyed>>
    /\ IF map = NULL \/ key = NULLARG \/ value = NULLARG
       THEN /\ ret' = FALSE
            /\ UNCHANGED <<hmap, mem, live, brk, last>>
       ELSE LET r == put_result(hmap, mem, live, brk, key, value, allocOK)
            IN  /\ ret' = r.ret
                /\ hmap' = r.hmap
                /\ mem' = r.mem
                /\ live' = r.live
                /\ brk' = r.brk
                /\ last' = IF r.ret
                           THEN [k \in (DOMAIN last) \cup {key} |->
                                    IF k = key THEN value ELSE last[k]]
                           ELSE last

\* --------------------------------------------------------------------- get
\* hashmap_get is declared in the header and defined nowhere in the sources;
\* it is modelled from the specification's lookup: hash, tag and index as in
\* put, then the chain is walked and the first equal key's value reported.

RECURSIVE get_scan_slots(_, _, _, _, _, _)
get_scan_slots(memv, eq, cur, i, top, key) ==
    IF i >= BUCKET_SIZE THEN [found |-> FALSE, value |-> 0]
    ELSE IF memv[cur].tophash[i] # EMPTY
            /\ memv[cur].tophash[i] = top
            /\ EqualsOf(eq, memv[cur].keys[i], key)
    THEN [found |-> TRUE, value |-> memv[cur].values[i]]
    ELSE get_scan_slots(memv, eq, cur, i + 1, top, key)

RECURSIVE get_scan_chain(_, _, _, _, _)
get_scan_chain(memv, eq, cur, top, key) ==
    IF cur = NULL THEN [found |-> FALSE, value |-> 0]
    ELSE LET s == get_scan_slots(memv, eq, cur, 0, top, key)
         IN  IF s.found THEN s
             ELSE get_scan_chain(memv, eq, get_overflow(memv, cur), top, key)

get_result(m, memv, key) ==
    LET hash == HashOf(m.hash, key)
        top  == top_hash(hash)
        idx  == bucket_index(hash, m.bucket_count)
    IN  get_scan_chain(memv, m.equals, get_bucket(m.buckets, idx), top, key)

hashmap_get(key, buf) ==
    /\ ~destroyed
    /\ op' = [name |-> "get", key |-> key]
    /\ UNCHANGED <<map, hmap, mem, live, brk, heapErr, destroyed, last>>
    /\ IF map = NULL \/ key = NULLARG
       THEN /\ ret' = FALSE
            /\ out' = <<buf, buf>>
       ELSE LET r == get_result(hmap, mem, key)
            IN  /\ ret' = r.found
                /\ out' = <<buf, IF r.found THEN r.value ELSE buf>>

\* ----------------------------------------------------------- specifications

Init ==
    /\ map = NULL
    /\ hmap = NoMap
    /\ mem = <<>>
    /\ live = {}
    /\ brk = NULL + 1
    /\ heapErr = FALSE
    /\ destroyed = FALSE
    /\ op = [name |-> "none"]
    /\ ret = FALSE
    /\ out = <<>>
    /\ last = <<>>

Create ==
    \E key_size \in {0, 4}, value_size \in {0, 4},
       hash \in HashFns \cup {NOFN}, equals \in EqualsFns \cup {NOFN},
       seed \in Seeds, mallocOK \in BOOLEAN, callocOK \in BOOLEAN :
        hashmap_create(key_size, value_size, hash, equals, seed,
                       mallocOK, callocOK)

Put ==
    \E key \in Keys \cup {NULLARG}, value \in Values \cup {NULLARG},
       allocOK \in BOOLEAN :
        hashmap_put(key, value, allocOK)

Get == \E key \in Keys \cup {NULLARG}, buf \in OutFill : hashmap_get(key, buf)

Destroy == hashmap_destroy

Next == Create \/ Put \/ Get \/ Destroy

Spec == Init /\ [][Next]_vars

\* The sequential scenario: one map created with valid arguments, then the
\* keys 0, 1, 2, ... put in order, each with the value key * 2.
CreateSeq ==
    \E hash \in SeqHashFns, equals \in EqualsFns, allocOK \in BOOLEAN :
        hashmap_create(4, 4, hash, equals, 1, allocOK, allocOK)

\* The next new key, or one of the keys already stored, with the scenario's
\* value.
PutSeq ==
    \E key \in {0, hmap.count - 1, hmap.count}, allocOK \in BOOLEAN :
        /\ key >= 0
        /\ key < (IF hmap.hash = "top" THEN MaxCollide ELSE MaxPuts)
        /\ hashmap_put(key, key * 2, allocOK)

GetSeq ==
    \E key \in {0, hmap.count - 1, hmap.count}, buf \in OutFill :
        /\ key >= 0
        /\ hashmap_get(key, buf)

NextSeq == CreateSeq \/ PutSeq \/ GetSeq \/ Destroy

SpecSeq == Init /\ [][NextSeq]_vars

\* ------------------------------------------------------------------ claims

Alive == map # NULL /\ ~destroyed

\* What a get of key would report in the current state.
Lookup(key) == get_result(hmap, mem, key)

\* C1. Round-trip: a get reports success and exactly the value of the most
\* recent successful put on its key, in every state reachable by puts; the
\* same holds of every key that was ever put, whichever call came last.
C1_RoundTrip ==
    /\ (op.name = "get" /\ map # NULL /\ op.key \in DOMAIN last)
          => (ret /\ out[2] = last[op.key])
    /\ (op.name = "put" /\ ret) => Lookup(op.key) =
                                      [found |-> TRUE, value |-> op.value]
    /\ Alive => \A k \in DOMAIN last :
                   Lookup(k) = [found |-> TRUE, value |-> last[k]]

\* A get has just returned the second value put on its key while the two
\* other keys are stored as well.
C1_Witness ==
    /\ op.name = "get"
    /\ ret
    /\ out[2] = 2
    /\ DOMAIN last = Keys
    /\ \E k \in Keys : last[k] = 1

\* The slots of the map that hold key.
SlotsOf(key) ==
    {bs \in (DOMAIN mem) \X Slots :
        mem[bs[1]].tophash[bs[2]] # EMPTY /\ mem[bs[1]].keys[bs[2]] = key}

\* C2. Overwrite: a put on a key already present succeeds, changes nothing of
\* the map but the value of the slot that holds the key, which becomes the
\* new value, leaves the live entry count and the allocations as they were,
\* and a get of the key then yields the new value.
C2_Overwrite ==
    [][(op'.name = "put" /\ map # NULL /\ op'.key \in DOMAIN last
          /\ op'.value # NULLARG)
        => /\ ret'
           /\ hmap' = hmap
           /\ live' = live
           /\ brk' = brk
           /\ \E bs \in SlotsOf(op'.key) :
                 mem' = [mem EXCEPT ![bs[1]].values[bs[2]] = op'.value]
           /\ get_result(hmap', mem', op'.key) =
                 [found |-> TRUE, value |-> op'.value]]_vars

\* A put has just replaced the value of a key by a different one.
C2_Witness ==
    /\ op.name = "put"
    /\ ret
    /\ op.known
    /\ op.prev # op.value
    /\ hmap.count = Cardinality(DOMAIN last)
    /\ hmap.count > 1

\* C3. Growth starts: a successful put that leaves a Stable map with
\* live_count * 2 > bucket_count * BUCKET_SIZE * 13 puts it in Growing: the
\* array becomes the old array, a new array of twice the count is current
\* and the evacuation counter is zero.
C3_GrowthStarts ==
    [][(op'.name = "put" /\ ret' /\ map # NULL /\ hmap.old_buckets = NULL
          /\ hmap'.count * LOAD_FACTOR_DENOMINATOR >
                hmap.bucket_count * BUCKET_SIZE * LOAD_FACTOR_NUMERATOR)
        => /\ hmap'.old_buckets = hmap.buckets
           /\ hmap'.old_bucket_count = hmap.bucket_count
           /\ hmap'.bucket_count = 2 * hmap.bucket_count
           /\ hmap'.buckets \notin {NULL, hmap.buckets}
           /\ hmap'.evacuated = 0]_vars

\* C4 and C8 speak of the Growing state.  The body of the load factor check
\* is empty, so the old-array fields keep the values hashmap_create gave
\* them: every reachable map is Stable, and neither claim has a state in
\* which its case arises.
StableAlways ==
    map # NULL =>
        /\ hmap.old_buckets = NULL
        /\ hmap.old_bucket_count = 0
        /\ hmap.evacuated = 0
        /\ hmap.bucket_count = INITIAL_BUCKET_COUNT

\* C5. Miss: a get of a key that was never inserted reports not found and
\* leaves the output buffer as it was, and no such key can be found in any
\* state of the map.
C5_Miss ==
    /\ (op.name = "get" /\ op.key \notin DOMAIN last)
          => (~ret /\ out[2] = out[1])
    /\ Alive => \A k \in Keys \ DOMAIN last : ~Lookup(k).found

\* A get has just missed key 0 while key 1, which shares its chain and its
\* tag, is stored.
C5_Witness ==
    /\ op.name = "get"
    /\ Alive
    /\ hmap.hash = "top"
    /\ op.key = 0
    /\ ~ret
    /\ out[2] = out[1]
    /\ 1 \in DOMAIN last

\* C6. Allocation failure is atomic: a put on a present map with present key
\* and value that returns false has changed neither the map record nor any
\* bucket, link or allocation.
C6_AllocFailureAtomic ==
    [][(op'.name = "put" /\ ~ret' /\ map # NULL
          /\ op'.key # NULLARG /\ op'.value # NULLARG)
        => UNCHANGED <<map, hmap, mem, live, brk, heapErr, last>>]_vars

\* A put of a new key has just failed on a full chain.
C6_Witness ==
    /\ op.name = "put"
    /\ ~ret
    /\ Alive
    /\ op.key # NULLARG
    /\ ~op.known
    /\ hmap.count >= BUCKET_SIZE

IsPow2(n) == n > 0 /\ BitAnd(n, n - 1) = 0

\* C7. Capacity: the current bucket count is a power of two no smaller than
\* the initial minimum, and an old array, when present, has half the current
\* bucket count.
C7_Capacity ==
    map # NULL =>
        /\ IsPow2(hmap.bucket_count)
        /\ hmap.bucket_count >= INITIAL_BUCKET_COUNT
        /\ hmap.old_buckets # NULL =>
               2 * hmap.old_bucket_count = hmap.bucket_count

\* A put has just taken the map past the load factor threshold.
C7_Witness ==
    /\ op.name = "put"
    /\ ret
    /\ Alive
    /\ needs_growth(hmap)

\* The buckets of the chain that starts at bucket, head first.
RECURSIVE ChainOf(_)
ChainOf(bucket) ==
    IF bucket = NULL THEN <<>>
    ELSE <<bucket>> \o ChainOf(get_overflow(mem, bucket))

Occupied(bucket) ==
    Cardinality({i \in Slots : mem[bucket].tophash[i] # EMPTY})

RECURSIVE EntriesIn(_)
EntriesIn(chain) ==
    IF chain = <<>> THEN 0 ELSE Occupied(Head(chain)) + EntriesIn(Tail(chain))

\* The overflow buckets linked into the chains j..bucket_count-1.
RECURSIVE LinkedOverflows(_)
LinkedOverflows(j) ==
    IF j >= hmap.bucket_count THEN 0
    ELSE Len(ChainOf(get_bucket(hmap.buckets, j))) - 1 + LinkedOverflows(j + 1)

IndexOf(key) == bucket_index(HashOf(hmap.hash, key), hmap.bucket_count)

\* C9. Chain scan: a chain that has received BUCKET_SIZE + 1 distinct keys
\* has exactly one overflow bucket, allocated and linked behind its head,
\* every overflow bucket ever allocated is linked into a chain, and each of
\* the chain's keys is retrievable with its value.
C9_ChainScan ==
    Alive =>
        /\ brk - (hmap.buckets + hmap.bucket_count) = LinkedOverflows(0)
        /\ \A j \in 0..(hmap.bucket_count - 1) :
              LET chain == ChainOf(get_bucket(hmap.buckets, j))
              IN  EntriesIn(chain) = BUCKET_SIZE + 1 =>
                     /\ Len(chain) = 2
                     /\ chain[2] \in live
                     /\ Occupied(chain[1]) = BUCKET_SIZE
                     /\ Cardinality({k \in DOMAIN last : IndexOf(k) = j})
                           = BUCKET_SIZE + 1
                     /\ \A k \in DOMAIN last :
                           IndexOf(k) = j =>
                              Lookup(k) = [found |-> TRUE, value |-> last[k]]

\* Nine keys of one chain are stored and the map owns one overflow bucket.
C9_Witness ==
    /\ op.name = "put"
    /\ ret
    /\ Alive
    /\ hmap.hash = "top"
    /\ hmap.count = BUCKET_SIZE + 1
    /\ Cardinality(live) = 3

\* C10. Destruction: destroy frees every block the map owns exactly once:
\* no block is freed that is not live, none stays allocated, and destroy on
\* an absent map frees nothing and consumes nothing.
C10_DestroySafe ==
    /\ ~heapErr
    /\ destroyed => live = {}
    /\ (op.name = "destroy" /\ op.handle = NULL)
          => (~destroyed /\ live = {} /\ mem = <<>> /\ hmap = NoMap)

\* A map with chains of several overflow buckets has been destroyed.
C10_Witness ==
    /\ destroyed
    /\ op.name = "destroy"
    /\ brk > hmap.buckets + hmap.bucket_count + 2
    /\ live = {}

\* destroy was called on an absent map.
C10_WitnessAbsent == op.name = "destroy" /\ op.handle = NULL

\* C11 speaks of the return from Growing to Stable, which needs a Growing
\* state: see StableAlways.

\* C12. Create: hashmap_create returns an absent map, with nothing left
\* allocated, when a size is zero, a function is absent or an allocation
\* fails; otherwise it returns a Stable map with zero entries, the minimum
\* bucket count and every slot empty.
C12_Create ==
    op.name = "create" =>
        /\ ret = (/\ op.key_size # 0
                  /\ op.value_size # 0
                  /\ op.hash # NOFN
                  /\ op.equals # NOFN
                  /\ op.allocOK)
        /\ ~ret => (map = NULL /\ live = {} /\ mem = <<>> /\ hmap = NoMap)
        /\ ret =>
              /\ map # NULL
              /\ hmap.buckets # NULL
              /\ live = {map, hmap.buckets}
              /\ hmap.key_size = op.key_size
              /\ hmap.value_size = op.value_size
              /\ hmap.hash = op.hash
              /\ hmap.equals = op.equals
              /\ hmap.old_buckets = NULL
              /\ hmap.old_bucket_count = 0
              /\ hmap.evacuated = 0
              /\ hmap.count = 0
              /\ hmap.bucket_count = INITIAL_BUCKET_COUNT
              /\ DOMAIN mem =
                    hmap.buckets..(hmap.buckets + INITIAL_BUCKET_COUNT - 1)
              /\ \A b \in DOMAIN mem :
                    /\ mem[b].overflow = NULL
                    /\ \A i \in Slots : mem[b].tophash[i] = EMPTY

\* A create with sizes, equality function and allocations in order was
\* refused for its absent hash function.
C12_Witness ==
    /\ op.name = "create"
    /\ ~ret
    /\ op.hash = NOFN
    /\ op.key_size # 0
    /\ op.value_size # 0
    /\ op.equals # NOFN
    /\ op.allocOK

\* A create with valid arguments has just returned a map.
C12_WitnessCreated == op.name = "create" /\ ret /\ map # NULL

\* The keys 0..99 have been put, each with the value key * 2, into a map of
\* 4-byte keys and values.
ScenarioDone ==
    /\ Alive
    /\ hmap.key_size = 4
    /\ hmap.value_size = 4
    /\ hmap.count = 100
    /\ DOMAIN last = 0..99
    /\ \A k \in 0..99 : last[k] = k * 2

\* The gets of the scenario: every key 0..99 yields key * 2, key 100 is not
\* found.
ScenarioGets ==
    /\ \A k \in 0..99 : Lookup(k) = [found |-> TRUE, value |-> k * 2]
    /\ ~Lookup(100).found

\* C13. Scenario: putting the keys 0..99 with value key * 2 into a fresh map
\* has triggered growth by the time all are in, every key k then yields
\* k * 2 and key 100 is not found.
C13_Scenario ==
    ScenarioDone =>
        /\ hmap.old_buckets # NULL \/ hmap.bucket_count > INITIAL_BUCKET_COUNT
        /\ ScenarioGets

\* The part of the scenario that the source does deliver.
C13_GetsHold == ScenarioDone => ScenarioGets

\* The first empty slot of chain in scan order, as <<bucket, slot>>, or <<>>
\* when every slot of the chain is taken.
RECURSIVE FirstFree(_)
FirstFree(chain) ==
    IF chain = <<>> THEN <<>>
    ELSE LET b  == Head(chain)
             fs == {i \in Slots : mem[b].tophash[i] = EMPTY}
         IN  IF fs # {}
             THEN <<b, CHOOSE i \in fs : \A j \in fs : i <= j>>
             ELSE FirstFree(Tail(chain))

\* The tag the hash of key asks for: its top byte, or 1 when that is 0.
TagOf(key) ==
    LET hi == HashOf(hmap.hash, key).hi
    IN  IF hi = 0 THEN 1 ELSE hi

\* C14. Placement: a successful put of a key that is not stored writes its
\* tag, key and value into the first free slot of the key's chain in scan
\* order and changes nothing else; when the chain has no free slot, it
\* allocates exactly one bucket, links it behind the last bucket of the
\* chain, fills its slot 0 and changes nothing else.
C14_Placement ==
    [][(op'.name = "put" /\ ret' /\ ~op'.known /\ map # NULL)
        => LET key   == op'.key
               chain == ChainOf(get_bucket(hmap.buckets, IndexOf(key)))
               ff    == FirstFree(chain)
               tail  == chain[Len(chain)]
           IN  IF ff # <<>>
               THEN /\ mem' = [mem EXCEPT ![ff[1]].tophash[ff[2]] = TagOf(key),
                                          ![ff[1]].keys[ff[2]] = key,
                                          ![ff[1]].values[ff[2]] = op'.value]
                    /\ brk' = brk
                    /\ live' = live
               ELSE /\ brk' = brk + 1
                    /\ live' = live \cup {brk}
                    /\ DOMAIN mem' = (DOMAIN mem) \cup {brk}
                    /\ \A a \in DOMAIN mem :
                          mem'[a] = IF a = tail
                                    THEN [mem[a] EXCEPT !.overflow = brk]
                                    ELSE mem[a]
                    /\ mem'[brk] =
                          [tophash  |-> [i \in Slots |->
                                           IF i = 0 THEN TagOf(key) ELSE EMPTY],
                           keys     |-> [i \in Slots |->
                                           IF i = 0 THEN key ELSE 0],
                           values   |-> [i \in Slots |->
                                           IF i = 0 THEN op'.value ELSE 0],
                           overflow |-> NULL]]_vars

\* A put of a new key has just opened the second overflow bucket of a chain.
C14_Witness ==
    /\ op.name = "put"
    /\ ret
    /\ ~op.known
    /\ Alive
    /\ LET chain == ChainOf(get_bucket(hmap.buckets, IndexOf(op.key)))
       IN  /\ Len(chain) = 3
           /\ chain[3] = brk - 1
           /\ Occupied(chain[3]) = 1
           /\ mem[chain[3]].keys[0] = op.key

\* The slots of the map whose tag is not EMPTY.
OccupiedSlots ==
    {bs \in (DOMAIN mem) \X Slots : mem[bs[1]].tophash[bs[2]] # EMPTY}

\* C15. Tophash: in every bucket, embedded or overflow, a slot has tag 0
\* exactly when it holds no entry: the occupied slots hold exactly the keys
\* that were put, each with its value and with the top byte of its hash,
\* raised to 1 when it is 0, as its tag, the other slots were never written,
\* and a key whose hash has a zero top byte is found again.
C15_Tophash ==
    Alive =>
        /\ \A bs \in (DOMAIN mem) \X Slots :
              LET b == mem[bs[1]]
                  i == bs[2]
              IN  IF b.tophash[i] = EMPTY
                  THEN b.keys[i] = 0 /\ b.values[i] = 0
                  ELSE /\ b.keys[i] \in DOMAIN last
                       /\ b.values[i] = last[b.keys[i]]
                       /\ b.tophash[i] = TagOf(b.keys[i])
                       /\ b.tophash[i] \in 1..255
        /\ {mem[bs[1]].keys[bs[2]] : bs \in OccupiedSlots} = DOMAIN last
        /\ (/\ op.name \in {"put", "get"}
            /\ op.key \in DOMAIN last
            /\ op.name = "put" => op.value # NULLARG
            /\ HashOf(hmap.hash, op.key).hi = 0)
              => (ret /\ Lookup(op.key).found)

\* A get has just found key 0, whose hash has a zero top byte, in a map that
\* has an overflow bucket.
C15_Witness ==
    /\ Alive
    /\ op.name = "get"
    /\ op.key = 0
    /\ ret
    /\ HashOf(hmap.hash, 0).hi = 0
    /\ brk > hmap.buckets + hmap.bucket_count

\* A map record with its seed blanked, for comparing maps up to the seed.
Unseeded(m) == [m EXCEPT !.hash_seed = 0]

\* C16. Seed independence: the seed is never read.  From two maps that differ
\* in nothing but the seed, every create, put, get and destroy returns the
\* same value and leaves the same buckets, tags, links, count and
\* allocations, the two seeds apart; so two such maps stay identical, the
\* seed apart, under any sequence of operations.
C16_SeedIndependent ==
    /\ \A s1 \in Seeds, s2 \in Seeds, h \in HashFns, e \in EqualsFns :
          Unseeded(NewMap(4, 4, h, e, s1, brk + 1))
             = Unseeded(NewMap(4, 4, h, e, s2, brk + 1))
    /\ Alive =>
          \A s2 \in Seeds \ {hmap.hash_seed} :
             LET m2 == [hmap EXCEPT !.hash_seed = s2]
                 hp == [live |-> live, err |-> heapErr]
             IN  /\ destroy_result(m2, mem, hp, map)
                       = destroy_result(hmap, mem, hp, map)
                 /\ \A key \in Keys :
                       /\ get_result(m2, mem, key) = get_result(hmap, mem, key)
                       /\ \A value \in Values, allocOK \in BOOLEAN :
                             LET r1 == put_result(hmap, mem, live, brk,
                                                  key, value, allocOK)
                                 r2 == put_result(m2, mem, live, brk,
                                                  key, value, allocOK)
                             IN  /\ r2.ret = r1.ret
                                 /\ r2.mem = r1.mem
                                 /\ r2.live = r1.live
                                 /\ r2.brk = r1.brk
                                 /\ Unseeded(r2.hmap) = Unseeded(r1.hmap)
                                 /\ r2.hmap.hash_seed = s2
                                 /\ r1.hmap.hash_seed = hmap.hash_seed

\* A map created with the second seed holds every key.
C16_Witness ==
    /\ Alive
    /\ op.name = "put"
    /\ ret
    /\ hmap.hash_seed = 2
    /\ hmap.count = Cardinality(Keys)

\* The live entry count equals the number of occupied slots and the number
\* of distinct keys put with success.
CountExact ==
    Alive =>
        /\ hmap.count = Cardinality(OccupiedSlots)
        /\ hmap.count = Cardinality(DOMAIN last)

\* C17. Count: after every call the live entry count is the number of
\* occupied slots and of distinct keys put; a put raises it by one when it
\* succeeds on a key not yet stored, and leaves it alone when it fails or
\* overwrites.
C17_Count ==
    [][/\ CountExact'
       /\ (op'.name = "put" /\ map # NULL)
             => hmap'.count =
                   hmap.count + (IF ret' /\ ~op'.known THEN 1 ELSE 0)]_vars

\* A put has just overwritten a key of a map that has an overflow bucket.
C17_Witness ==
    /\ Alive
    /\ op.name = "put"
    /\ ret
    /\ op.known
    /\ hmap.count > BUCKET_SIZE
    /\ hmap.count = Cardinality(DOMAIN last)

\* A put of a new key has just failed for want of memory.
C17_WitnessFailed ==
    /\ Alive
    /\ op.name = "put"
    /\ ~ret
    /\ ~op.known
    /\ hmap.count = Cardinality(DOMAIN last)

\* C18. Key uniqueness: no two occupied slots of the map hold equal keys, so
\* a put on a key that is stored anywhere in its chain never opens a second
\* slot for it.
C18_UniqueKeys ==
    Alive =>
        /\ Cardinality({mem[bs[1]].keys[bs[2]] : bs \in OccupiedSlots})
              = Cardinality(OccupiedSlots)
        /\ (op.name = "put" /\ op.key # NULLARG /\ op.known)
              => Cardinality(SlotsOf(op.key)) = 1

\* A put has just overwritten a key that is stored in an overflow bucket.
C18_Witness ==
    /\ Alive
    /\ op.name = "put"
    /\ ret
    /\ op.known
    /\ \E bs \in SlotsOf(op.key) : bs[1] >= hmap.buckets + hmap.bucket_count

\* The set of buckets of the chain that starts at bucket.
BucketsOf(bucket) == {ChainOf(bucket)[n] : n \in 1..Len(ChainOf(bucket))}

\* C19. Placement consistency: every occupied slot in the chain of bucket
\* index j holds a key whose hash, masked with bucket_count - 1, is j, and
\* whose tag is the one its hash asks for; every bucket belongs to a chain;
\* so the chain a lookup selects for a stored key is the one that holds it.
C19_Placement ==
    Alive =>
        /\ \A j \in 0..(hmap.bucket_count - 1) :
              \A b \in BucketsOf(get_bucket(hmap.buckets, j)) :
                 \A i \in Slots :
                    mem[b].tophash[i] # EMPTY =>
                       /\ BitAnd(HashOf(hmap.hash, mem[b].keys[i]).lo,
                                 hmap.bucket_count - 1) = j
                       /\ mem[b].tophash[i] = TagOf(mem[b].keys[i])
        /\ DOMAIN mem =
              UNION {BucketsOf(get_bucket(hmap.buckets, j)) :
                        j \in 0..(hmap.bucket_count - 1)}
        /\ (op.name \in {"put", "get"} /\ op.key \in DOMAIN last)
              => Lookup(op.key) = [found |-> TRUE, value |-> last[op.key]]

\* A get has just found a key in a map all of whose chains have overflowed.
C19_Witness ==
    /\ Alive
    /\ op.name = "get"
    /\ ret
    /\ op.key > 0
    /\ \A j \in 0..(hmap.bucket_count - 1) :
          get_overflow(mem, get_bucket(hmap.buckets, j)) # NULL

\* C20. Dense chains: in every chain the occupied slots form a prefix in
\* scan order: within a bucket no empty slot precedes an occupied one, a
\* bucket that has an overflow successor is full, and an overflow bucket
\* holds at least one entry.
C20_Dense ==
    Alive =>
        \A j \in 0..(hmap.bucket_count - 1) :
           LET chain == ChainOf(get_bucket(hmap.buckets, j))
           IN  \A n \in 1..Len(chain) :
                  /\ \A i \in Slots :
                        mem[chain[n]].tophash[i] # EMPTY =>
                           \A i2 \in 0..(i - 1) :
                              mem[chain[n]].tophash[i2] # EMPTY
                  /\ n < Len(chain) => Occupied(chain[n]) = BUCKET_SIZE
                  /\ n > 1 => Occupied(chain[n]) >= 1

\* A chain of three buckets whose last bucket is partly filled.
C20_Witness ==
    /\ Alive
    /\ op.name = "put"
    /\ ret
    /\ \E j \in 0..(hmap.bucket_count - 1) :
          LET chain == ChainOf(get_bucket(hmap.buckets, j))
          IN  /\ Len(chain) = 3
              /\ Occupied(chain[3]) \in 2..(BUCKET_SIZE - 1)

====
